---- MODULE Spec2Model ----
(***************************************************************************)
(* CrosswordCreator (generate.py): node consistency, AC-3 and backtracking *)
(* search over a crossword puzzle, as executed by solve().                 *)
(*                                                                         *)
(* A word is a tuple of letters, indexed from 1 here and from 0 in the     *)
(* code: the code's word[k] is w[k + 1].  No vocabulary word is empty, so  *)
(* the empty tuple stands for Python's None.                               *)
(***************************************************************************)
EXTENDS Integers, Sequences, FiniteSets, TLC

VARIABLES
    variables,            \* crossword.variables
    words,                \* crossword.words
    var_order,            \* iteration order of crossword.variables
    overlaps,             \* crossword.overlaps
    overlap_keys,         \* iteration order of the keys of crossword.overlaps
    word_order,           \* iteration order of a set of words, fixed by their hashes
    domains,              \* self.domains
    pc,                   \* position in solve()
    arc_queue,            \* ac3's local arc_queue
    ac3_ret,              \* what self.ac3() returned: "unset", "True", "False"
    assignment,           \* the dict handed to backtrack and mutated in place
    stack,                \* the active backtrack calls, outermost first
    deep_copy_assignment, \* backtrack's local deep_copy_assignment
    consistent_ret,       \* outcome of the last self.consistent call
    result,               \* outcome of solve(): "pending", "assignment", "None", "IndexError"
    call                  \* the last method called directly: its arguments and outcome

vars == <<variables, words, var_order, overlaps, overlap_keys, word_order, domains,
          pc, arc_queue, ac3_ret, assignment, stack, deep_copy_assignment,
          consistent_ret, result, call>>

None == <<>>

\* Largest vocabulary the model draws.
MaxWords == 3

--------------------------------------------------------------------------
(* The puzzles and vocabularies explored *)

AB  == <<"A", "B">>
AT  == <<"A", "T">>
TO  == <<"T", "O">>
OX  == <<"O", "X">>
CAT == <<"C", "A", "T">>
DOG == <<"D", "O", "G">>

WordPool == {AB, AT, TO, OX, CAT, DOG}

Vocabularies == {W \in SUBSET WordPool : Cardinality(W) <= MaxWords}

Variable(i, j, direction, length) ==
    [i |-> i, j |-> j, direction |-> direction, length |-> length]

\* One isolated slot of length 3.
PuzzleSingle == {Variable(0, 0, "across", 3)}

\* Two crossing slots of length 2 in a 2x2 grid.
PuzzleCorner == {Variable(0, 0, "across", 2), Variable(0, 1, "down", 2)}

\* Two crossing slots of length 3.
PuzzleCross == {Variable(1, 0, "across", 3), Variable(0, 0, "down", 3)}

\* Two slots that share no cell, of lengths 2 and 3.
PuzzleApart == {Variable(0, 0, "across", 2), Variable(2, 0, "across", 3)}

\* One slot of length 3 crossed by two slots of length 2.
PuzzleThree ==
    {Variable(1, 0, "across", 3), Variable(1, 1, "down", 2), Variable(0, 2, "down", 2)}

\* A slot of length 2 that starts in the first cell of a slot of length 3 and
\* ends in the last cell of another slot of length 2.
PuzzleHook ==
    {Variable(1, 0, "across", 2), Variable(1, 0, "down", 3), Variable(0, 1, "down", 2)}

Puzzles ==
    {PuzzleSingle, PuzzleCorner, PuzzleCross, PuzzleApart, PuzzleThree, PuzzleHook}

\* All orders in which a finite set can be iterated.
RECURSIVE Orders(_)
Orders(S) ==
    IF S = {} THEN {<<>>}
    ELSE UNION {{<<first>> \o rest : rest \in Orders(S \ {first})} : first \in S}

--------------------------------------------------------------------------
(* Puzzle Model: crossword.Variable and crossword.Crossword *)

\* Variable.cells
cells(v) ==
    [k \in 1..v.length |->
        <<v.i + (IF v.direction = "down" THEN k - 1 ELSE 0),
          v.j + (IF v.direction = "across" THEN k - 1 ELSE 0)>>]

\* 0-based index of cell c in a cell list
CellIndex(cs, c) == (CHOOSE k \in DOMAIN cs : cs[k] = c) - 1

\* The entry of crossword.overlaps for (x, y): None, or the pair of 0-based
\* indices (kx, ky) of the cell x and y share
Overlap(x, y) ==
    LET shared == {c \in {cells(x)[k] : k \in DOMAIN cells(x)} :
                      \E k \in DOMAIN cells(y) : cells(y)[k] = c}
    IN  IF shared = {} THEN None
        ELSE LET c == CHOOSE c \in shared : TRUE
             IN  <<CellIndex(cells(x), c), CellIndex(cells(y), c)>>

\* crossword.overlaps as built for a set of variables
OverlapTable(V) ==
    [arc \in {a \in V \X V : a[1] # a[2]} |-> Overlap(arc[1], arc[2])]

\* crossword.neighbors(var)
neighbors(var) == {v \in variables : v # var /\ overlaps[<<v, var>>] # None}

\* The keys of crossword.overlaps, every ordered pair of distinct variables,
\* in the order of a nested iteration over the variables in order o.
OverlapKeys(o) ==
    LET n == Len(o)
        pairs == [k \in 1..(n * n) |-> <<o[((k - 1) \div n) + 1], o[((k - 1) % n) + 1]>>]
    IN  SelectSeq(pairs, LAMBDA p : p[1] # p[2])

--------------------------------------------------------------------------
(* Pure parts of CrosswordCreator *)

\* word[k] is in range
HasIndex(w, k) == k >= 0 /\ k < Len(w)

\* Mutant of NodeConsistentDomains: the words that fill the slot exactly are
\* removed with the longer ones
RemovesFittingWords(D) ==
    [var \in DOMAIN D |-> {value \in D[var] : ~(Len(value) >= var.length)}]

\* enforce_node_consistency: the domains it leaves
NodeConsistentDomains(D) ==
    [v \in DOMAIN D |-> {value \in D[v] : ~(Len(value) > v.length)}]

\* Mutant of found_y: val_x counts as supported by any word of y's domain,
\* whatever its letters
AnyValueSupports(D, x, y, val_x) == D[y] # {}

\* revise's inner loop: some val_y matches val_x at the overlap; an IndexError
\* is swallowed and the next val_y is tried
found_y(D, x, y, val_x) ==
    LET overlap_index == overlaps[<<x, y>>]
    IN  /\ overlap_index # None
        /\ \E val_y \in D[y] :
              /\ HasIndex(val_x, overlap_index[1])
              /\ HasIndex(val_y, overlap_index[2])
              /\ val_x[overlap_index[1] + 1] = val_y[overlap_index[2] + 1]

\* revise, line 125-131: with no overlap, overlap_index is None and the first
\* comparison of a val_x with a val_y subscripts it: a TypeError, which the
\* except IndexError clause does not catch
revise_raises(D, x, y) == overlaps[<<x, y>>] = None /\ D[x] # {} /\ D[y] # {}

\* Mutant of revise: x's domain is rebuilt from the whole vocabulary, so a
\* supported word removed earlier comes back
revise_from_vocabulary(D, x, y) ==
    LET supported == {val_x \in words : found_y(D, x, y, val_x)}
    IN  [domains |-> [D EXCEPT ![x] = supported],
         revision_made |-> supported # D[x],
         raised |-> "none"]

\* revise(x, y): the new domains, the returned revision_made and whether the
\* call raised (then nothing was removed yet)
revise(D, x, y) ==
    LET x_values_to_be_removed == {val_x \in D[x] : ~found_y(D, x, y, val_x)}
    IN  IF revise_raises(D, x, y)
        THEN [domains |-> D, revision_made |-> FALSE, raised |-> "TypeError"]
        ELSE [domains |-> [D EXCEPT ![x] = D[x] \ x_values_to_be_removed],
              revision_made |-> x_values_to_be_removed # {},
              raised |-> "none"]

\* Mutant of ArcsInto: after a revision of x only the arcs that start in x are
\* enqueued again.
ArcsOutOf(keys, x) == SelectSeq(keys, LAMBDA potential_arc : x = potential_arc[1])

\* Mutant of ArcsInto: the first arc into x is left out
AllButFirstArcInto(keys, x) ==
    LET into == SelectSeq(keys, LAMBDA potential_arc : potential_arc[2] = x)
    IN  IF Len(into) = 0 THEN into ELSE Tail(into)

\* ac3's re-enqueue loop: the arcs of the overlap table that end in x, in
\* table order
ArcsInto(keys, x) == SelectSeq(keys, LAMBDA potential_arc : x = potential_arc[2])

\* assignment_complete(assignment)
assignment_complete(a) == \A var \in DOMAIN a : a[var] # None

\* Mutant of SharesWord: only a neighbour holding the same word counts.
SharesWordWithNeighbor(a, var) ==
    \E comp_var \in DOMAIN a :
        /\ var # comp_var /\ overlaps[<<var, comp_var>>] # None
        /\ a[var] = a[comp_var] /\ a[var] # None

\* consistent, line 208-212: some other variable holds the same word
SharesWord(a, var) ==
    \E comp_var \in DOMAIN a :
        var # comp_var /\ a[var] = a[comp_var] /\ a[var] # None

\* Mutant of NeighborLoop: the neighbours' letters are never compared
NeighborsNotCompared(a, var, ns, k) == "ok"

\* consistent, line 219-230: the loop over var's neighbours, visited in the
\* order ns from position k on: "ok" when it runs through, "False" on a
\* conflict, "IndexError" when a compared word has no character at its index
RECURSIVE NeighborLoop(_, _, _, _)
NeighborLoop(a, var, ns, k) ==
    IF k > Len(ns) THEN "ok"
    ELSE LET neighbor_var == ns[k]
             overlap_index == overlaps[<<var, neighbor_var>>]
         IN  IF a[neighbor_var] = None THEN NeighborLoop(a, var, ns, k + 1)
             ELSE IF overlap_index = None THEN NeighborLoop(a, var, ns, k + 1)
             ELSE IF ~HasIndex(a[var], overlap_index[1])
                     \/ ~HasIndex(a[neighbor_var], overlap_index[2])
                  THEN "IndexError"
             ELSE IF a[var][overlap_index[1] + 1] # a[neighbor_var][overlap_index[2] + 1]
                  THEN "False"
             ELSE NeighborLoop(a, var, ns, k + 1)

\* consistent, line 203-232: the loop over the assignment's keys in dict
\* order, from position k on
RECURSIVE ConsistentLoop(_, _, _, _)
ConsistentLoop(a, order, nbr_order, k) ==
    IF k > Len(order) THEN "True"
    ELSE LET var == order[k]
             ns == SelectSeq(nbr_order, LAMBDA v : v \in neighbors(var))
         IN  IF a[var] = None THEN ConsistentLoop(a, order, nbr_order, k + 1)
             ELSE IF SharesWord(a, var) THEN "False"
             ELSE IF Len(a[var]) # var.length THEN "False"
             ELSE LET scan == NeighborLoop(a, var, ns, 1)
                  IN  IF scan = "ok" THEN ConsistentLoop(a, order, nbr_order, k + 1)
                      ELSE scan

\* consistent(assignment): "True", "False" or "IndexError" (raised).  order is
\* the assignment's key order, nbr_order the order in which the sets returned
\* by crossword.neighbors are iterated.
consistent(a, order, nbr_order) == ConsistentLoop(a, order, nbr_order, 1)

\* order_domain_values, line 258-269: the words of neighbor_var's domain that
\* value rules out
RuledOutIn(D, var, neighbor_var, value) ==
    LET vars_overlap_index == overlaps[<<var, neighbor_var>>]
    IN  {comp_value \in D[neighbor_var] :
            \/ comp_value = value
            \/ ~HasIndex(value, vars_overlap_index[1])
            \/ ~HasIndex(comp_value, vars_overlap_index[2])
            \/ value[vars_overlap_index[1] + 1] # comp_value[vars_overlap_index[2] + 1]}

\* order_domain_values, line 252-273: num_ruled_out of value, summed over the
\* neighbours in ns
RECURSIVE SumRuledOut(_, _, _, _, _)
SumRuledOut(D, var, a, value, ns) ==
    IF ns = {} THEN 0
    ELSE LET neighbor_var == CHOOSE n \in ns : TRUE
             rest == SumRuledOut(D, var, a, value, ns \ {neighbor_var})
         IN  IF a[neighbor_var] # None THEN rest
             ELSE rest + Cardinality(RuledOutIn(D, var, neighbor_var, value))

num_ruled_out(D, var, a, value) == SumRuledOut(D, var, a, value, neighbors(var))

\* sorted(d, key=d.get) of a dict whose keys were inserted in the order iter:
\* ascending by key, ties in insertion order
SortedByKey(iter, key) ==
    LET n == Len(iter)
        rank(i) == Cardinality({j \in 1..n :
                        key[iter[j]] < key[iter[i]]
                        \/ (key[iter[j]] = key[iter[i]] /\ j <= i)})
    IN  [p \in 1..n |-> iter[CHOOSE i \in 1..n : rank(i) = p]]

\* Mutant of order_domain_values: the domain is returned in iteration order,
\* unsorted.
UnsortedDomainValues(D, var, a, iter) == iter

\* order_domain_values(var, assignment); iter is the order in which
\* self.domains[var] is iterated
order_domain_values(D, var, a, iter) ==
    LET value_elimination_dict == [value \in D[var] |-> num_ruled_out(D, var, a, value)]
    IN  SortedByKey(iter, value_elimination_dict)

\* select_unassigned_variable(assignment): the first key, in dict order, with
\* no value
select_unassigned_variable(a, order) ==
    order[CHOOSE k \in DOMAIN order :
            a[order[k]] = None /\ \A j \in 1..(k - 1) : a[order[j]] # None]

--------------------------------------------------------------------------
(* solve() as a state machine *)

EmptyDict == [var \in {} |-> None]

\* No method has been called directly
NoCall == [method |-> "none", args |-> <<>>, before |-> <<>>, ret |-> "none"]

\* CrosswordCreator.__init__ on a crossword drawn from the puzzles and
\* vocabularies above, with solve() about to run
Init ==
    /\ variables \in Puzzles
    /\ words \in Vocabularies
    /\ var_order \in Orders(variables)
    /\ overlaps = OverlapTable(variables)
    /\ overlap_keys \in {OverlapKeys(o) : o \in Orders(variables)}
    /\ word_order = <<>>
    /\ domains = [var \in variables |-> words]
    /\ pc = "enforce_node_consistency"
    /\ arc_queue = <<>>
    /\ ac3_ret = "unset"
    /\ assignment = EmptyDict
    /\ stack = <<>>
    /\ deep_copy_assignment = EmptyDict
    /\ consistent_ret = "unset"
    /\ result = "pending"
    /\ call = NoCall

\* solve, line 93: self.enforce_node_consistency()
enforce_node_consistency ==
    /\ pc = "enforce_node_consistency"
    /\ domains' = NodeConsistentDomains(domains)
    /\ pc' = "ac3"
    /\ UNCHANGED <<variables, words, var_order, overlaps, overlap_keys, call, word_order,
                   arc_queue, ac3_ret, assignment, stack, deep_copy_assignment,
                   consistent_ret, result>>

\* solve, line 94, and ac3, line 156-159: self.ac3() with arcs = None fills
\* the queue with every key of the overlap table
ac3_begin ==
    /\ pc = "ac3"
    /\ arc_queue' = overlap_keys
    /\ pc' = "ac3_loop"
    /\ UNCHANGED <<variables, words, var_order, overlaps, overlap_keys, call, word_order,
                   domains, ac3_ret, assignment, stack, deep_copy_assignment,
                   consistent_ret, result>>

\* ac3, line 161-176: one iteration of the while loop
ac3_iteration ==
    /\ pc = "ac3_loop"
    /\ Len(arc_queue) # 0
    /\ LET arc == Head(arc_queue)
           popped == Tail(arc_queue)
       IN  IF overlaps[<<arc[1], arc[2]>>] = None
           THEN /\ arc_queue' = popped
                /\ UNCHANGED <<domains, ac3_ret, pc>>
           ELSE LET r == revise(domains, arc[1], arc[2])
                IN  /\ domains' = r.domains
                    /\ IF Cardinality(r.domains[arc[1]]) = 0
                       THEN /\ ac3_ret' = "False"
                            /\ pc' = "backtrack_root"
                            /\ arc_queue' = popped
                       ELSE /\ arc_queue' =
                                 IF r.revision_made
                                 THEN popped \o ArcsInto(overlap_keys, arc[1])
                                 ELSE popped
                            /\ UNCHANGED <<ac3_ret, pc>>
    /\ UNCHANGED <<variables, words, var_order, overlaps, overlap_keys, call, word_order,
                   assignment, stack, deep_copy_assignment, consistent_ret, result>>

\* ac3, line 178: the queue is empty, return True
ac3_return_true ==
    /\ pc = "ac3_loop"
    /\ Len(arc_queue) = 0
    /\ ac3_ret' = "True"
    /\ pc' = "backtrack_root"
    /\ UNCHANGED <<variables, words, var_order, overlaps, overlap_keys, call, word_order,
                   domains, arc_queue, assignment, stack, deep_copy_assignment,
                   consistent_ret, result>>

\* solve, line 95: self.backtrack(dict()), whatever ac3 returned.  From here
\* on the order in which the domains are iterated matters; it is any one order
\* of the words.
solve_backtrack ==
    /\ pc = "backtrack_root"
    /\ assignment' = EmptyDict
    /\ word_order' \in Orders(words)
    /\ pc' = "backtrack"
    /\ UNCHANGED <<variables, words, var_order, overlaps, overlap_keys, call, domains,
                   arc_queue, ac3_ret, stack, deep_copy_assignment, consistent_ret,
                   result>>

\* backtrack, line 300-308: entry of a call.  An empty assignment gets every
\* variable as a key; a complete one is returned through every caller;
\* otherwise a variable is selected and its values ordered for the loop.
\* The call's frame remembers the assignment the call was entered with.
backtrack_enter ==
    /\ pc = "backtrack"
    /\ LET a == IF Cardinality(DOMAIN assignment) = 0
                THEN [var \in variables |-> None]
                ELSE assignment
       IN  /\ assignment' = a
           /\ IF assignment_complete(a)
              THEN /\ result' = "assignment"
                   /\ pc' = "done"
                   /\ stack' = <<>>
              ELSE LET var == select_unassigned_variable(a, var_order)
                       iter == SelectSeq(word_order, LAMBDA w : w \in domains[var])
                   IN  /\ stack' = Append(stack,
                              [var |-> var,
                               values |-> order_domain_values(domains, var, a, iter),
                               next |-> 1,
                               entry |-> assignment])
                       /\ pc' = "for_value"
                       /\ UNCHANGED result
    /\ UNCHANGED <<variables, words, var_order, overlaps, overlap_keys, call, word_order,
                   domains, arc_queue, ac3_ret, deep_copy_assignment, consistent_ret>>

\* Mutant of backtrack_try_value: the value is written to the assignment and
\* the recursive call made whatever consistent returned
backtrack_commits_unchecked ==
    /\ pc = "for_value"
    /\ LET frame == stack[Len(stack)]
       IN  /\ frame.next <= Len(frame.values)
           /\ LET value == frame.values[frame.next]
                  copy == [assignment EXCEPT ![frame.var] = value]
              IN  \E nbr_order \in Orders(variables) :
                    LET c == consistent(copy, var_order, nbr_order)
                    IN  /\ deep_copy_assignment' = copy
                        /\ consistent_ret' = c
                        /\ stack' = [stack EXCEPT ![Len(stack)].next = frame.next + 1]
                        /\ IF c = "IndexError"
                           THEN /\ result' = "IndexError"
                                /\ pc' = "done"
                                /\ UNCHANGED assignment
                           ELSE /\ assignment' = copy
                                /\ pc' = "backtrack"
                                /\ UNCHANGED result
    /\ UNCHANGED <<variables, words, var_order, overlaps, overlap_keys, call, word_order,
                   domains, arc_queue, ac3_ret>>

\* Mutant of backtrack_try_value: committing a value also narrows the
\* variable's domain to that value
backtrack_narrows_domain ==
    /\ pc = "for_value"
    /\ LET frame == stack[Len(stack)]
       IN  /\ frame.next <= Len(frame.values)
           /\ LET value == frame.values[frame.next]
                  copy == [assignment EXCEPT ![frame.var] = value]
              IN  \E nbr_order \in Orders(variables) :
                    LET c == consistent(copy, var_order, nbr_order)
                    IN  /\ deep_copy_assignment' = copy
                        /\ consistent_ret' = c
                        /\ stack' = [stack EXCEPT ![Len(stack)].next = frame.next + 1]
                        /\ IF c = "IndexError"
                           THEN /\ result' = "IndexError"
                                /\ pc' = "done"
                                /\ UNCHANGED <<assignment, domains>>
                           ELSE IF c = "True"
                           THEN /\ assignment' = copy
                                /\ domains' = [domains EXCEPT ![frame.var] = {value}]
                                /\ pc' = "backtrack"
                                /\ UNCHANGED result
                           ELSE UNCHANGED <<assignment, domains, pc, result>>
    /\ UNCHANGED <<variables, words, var_order, overlaps, overlap_keys, call, word_order,
                   arc_queue, ac3_ret>>

\* backtrack, line 308-314: one iteration of the loop over the ordered values
\* in the innermost call: the value is tried on a deep copy and, when
\* consistent, written to the assignment before the recursive call.  An
\* IndexError raised by consistent ends solve.
backtrack_try_value ==
    /\ pc = "for_value"
    /\ LET frame == stack[Len(stack)]
       IN  /\ frame.next <= Len(frame.values)
           /\ LET value == frame.values[frame.next]
                  copy == [assignment EXCEPT ![frame.var] = value]
              IN  \E nbr_order \in Orders(variables) :
                    LET c == consistent(copy, var_order, nbr_order)
                    IN  /\ deep_copy_assignment' = copy
                        /\ consistent_ret' = c
                        /\ stack' = [stack EXCEPT ![Len(stack)].next = frame.next + 1]
                        /\ IF c = "IndexError"
                           THEN /\ result' = "IndexError"
                                /\ pc' = "done"
                                /\ UNCHANGED assignment
                           ELSE IF c = "True"
                           THEN /\ assignment' = copy
                                /\ pc' = "backtrack"
                                /\ UNCHANGED result
                           ELSE UNCHANGED <<assignment, pc, result>>
    /\ UNCHANGED <<variables, words, var_order, overlaps, overlap_keys, call, word_order,
                   domains, arc_queue, ac3_ret>>

\* Mutant of backtrack_return_none: the caller returns the recursive call's
\* result unchecked, so the first None ends every active call.
backtrack_none_ends_search ==
    /\ pc = "for_value"
    /\ LET frame == stack[Len(stack)]
       IN  frame.next > Len(frame.values)
    /\ stack' = <<>>
    /\ result' = "None"
    /\ pc' = "done"
    /\ UNCHANGED <<variables, words, var_order, overlaps, overlap_keys, call, word_order,
                   domains, arc_queue, ac3_ret, assignment, deep_copy_assignment,
                   consistent_ret>>

\* Mutant of backtrack_return_none: the caller goes on with its loop without
\* taking the failed value back
backtrack_return_keeps_value ==
    /\ pc = "for_value"
    /\ LET frame == stack[Len(stack)]
           callers == SubSeq(stack, 1, Len(stack) - 1)
       IN  /\ frame.next > Len(frame.values)
           /\ stack' = callers
           /\ IF Len(callers) = 0
              THEN /\ result' = "None"
                   /\ pc' = "done"
              ELSE UNCHANGED <<pc, result>>
    /\ UNCHANGED <<variables, words, var_order, overlaps, overlap_keys, call, word_order,
                   domains, arc_queue, ac3_ret, assignment, deep_copy_assignment,
                   consistent_ret>>

\* backtrack, line 322 and 315-319: the innermost call has tried every value
\* and returns None; its caller, if any, takes the value back and goes on
\* with its loop
backtrack_return_none ==
    /\ pc = "for_value"
    /\ LET frame == stack[Len(stack)]
           callers == SubSeq(stack, 1, Len(stack) - 1)
       IN  /\ frame.next > Len(frame.values)
           /\ stack' = callers
           /\ IF Len(callers) = 0
              THEN /\ result' = "None"
                   /\ pc' = "done"
                   /\ UNCHANGED assignment
              ELSE /\ assignment' =
                        [assignment EXCEPT ![callers[Len(callers)].var] = None]
                   /\ UNCHANGED <<pc, result>>
    /\ UNCHANGED <<variables, words, var_order, overlaps, overlap_keys, call, word_order,
                   domains, arc_queue, ac3_ret, deep_copy_assignment, consistent_ret>>

Next ==
    \/ enforce_node_consistency
    \/ ac3_begin
    \/ ac3_iteration
    \/ ac3_return_true
    \/ solve_backtrack
    \/ backtrack_enter
    \/ backtrack_try_value
    \/ backtrack_return_none

Spec == Init /\ [][Next]_vars

--------------------------------------------------------------------------
(* solve() up to the return of self.ac3(), every step eventually taken *)

NextAC3 ==
    \/ enforce_node_consistency
    \/ ac3_begin
    \/ ac3_iteration
    \/ ac3_return_true

\* The interpreter runs the two calls to their end: a step that can be taken
\* is taken
SpecAC3 == Init /\ [][NextAC3]_vars /\ WF_vars(NextAC3)

--------------------------------------------------------------------------
(* The methods called one at a time on a creator, outside solve() *)

\* Longest explicit arc list handed to ac3.
MaxArcs == 1

\* The lists of at most n elements of S
BoundedSeqs(S, n) == UNION {[1..k -> S] : k \in 0..n}

\* __init__, line 13-17, then a caller that invokes single methods
InitCalls ==
    /\ Init
    /\ overlap_keys = OverlapKeys(var_order)

\* enforce_node_consistency, line 97-111, called directly
call_enforce_node_consistency ==
    /\ pc = "enforce_node_consistency"
    /\ call.method = "none"
    /\ domains' = NodeConsistentDomains(domains)
    /\ call' = [method |-> "enforce_node_consistency", args |-> <<>>,
                before |-> domains, ret |-> "None"]
    /\ UNCHANGED <<variables, words, var_order, overlaps, overlap_keys, word_order,
                   pc, arc_queue, ac3_ret, assignment, stack, deep_copy_assignment,
                   consistent_ret, result>>

\* revise, line 114-144, called directly on any two distinct variables,
\* overlapping or not
call_revise ==
    /\ pc = "enforce_node_consistency"
    /\ call.method = "none"
    /\ \E x, y \in variables :
          /\ x # y
          /\ LET r == revise(domains, x, y)
             IN  /\ domains' = r.domains
                 /\ call' = [method |-> "revise", args |-> <<x, y>>,
                             before |-> domains,
                             ret |-> IF r.raised # "none" THEN r.raised
                                     ELSE IF r.revision_made THEN "True"
                                     ELSE "False"]
    /\ UNCHANGED <<variables, words, var_order, overlaps, overlap_keys, word_order,
                   pc, arc_queue, ac3_ret, assignment, stack, deep_copy_assignment,
                   consistent_ret, result>>

\* ac3, line 146-161, called with an explicit list of arcs: arcs == None is
\* false, so arc_queue is never assigned, and the loop condition of line 161
\* reads it
call_ac3 ==
    /\ pc = "enforce_node_consistency"
    /\ call.method = "none"
    /\ \E arcs \in BoundedSeqs({overlap_keys[k] : k \in DOMAIN overlap_keys}, MaxArcs) :
          call' = [method |-> "ac3", args |-> [arcs |-> arcs],
                   before |-> domains, ret |-> "UnboundLocalError"]
    /\ UNCHANGED <<variables, words, var_order, overlaps, overlap_keys, word_order,
                   domains, pc, arc_queue, ac3_ret, assignment, stack,
                   deep_copy_assignment, consistent_ret, result>>

\* consistent, line 193-232, called directly on any assignment that has every
\* variable as a key, in any iteration order of the dict and of the neighbor
\* sets.  consistent reads no domain, so the caller invokes it on the creator
\* as constructed.
call_consistent ==
    /\ pc = "enforce_node_consistency"
    /\ call.method = "none"
    /\ domains = [var \in variables |-> words]
    /\ \E a \in [variables -> words \cup {None}] :
          \E order \in Orders(variables), nbr_order \in Orders(variables) :
             call' = [method |-> "consistent", args |-> a, before |-> domains,
                      ret |-> consistent(a, order, nbr_order)]
    /\ UNCHANGED <<variables, words, var_order, overlaps, overlap_keys, word_order,
                   domains, pc, arc_queue, ac3_ret, assignment, stack,
                   deep_copy_assignment, consistent_ret, result>>

\* The called method has returned or raised; the caller goes on
call_returns ==
    /\ pc = "enforce_node_consistency"
    /\ call.method # "none"
    /\ call' = NoCall
    /\ UNCHANGED <<variables, words, var_order, overlaps, overlap_keys, word_order,
                   domains, pc, arc_queue, ac3_ret, assignment, stack,
                   deep_copy_assignment, consistent_ret, result>>

NextCalls ==
    \/ call_enforce_node_consistency
    \/ call_revise
    \/ call_ac3
    \/ call_consistent
    \/ call_returns

SpecCalls == InitCalls /\ [][NextCalls]_vars

--------------------------------------------------------------------------
(* Properties *)

\* The positions of solve() after self.ac3() has returned
AfterAC3 == ac3_ret # "unset"

\* The positions inside a backtrack call
InSearch == pc \in {"backtrack", "for_value"}

\* f gives every variable a word and meets the length, overlap and
\* all-distinct constraints
Satisfies(f) ==
    /\ DOMAIN f = variables
    /\ \A v \in variables : f[v] \in words /\ Len(f[v]) = v.length
    /\ \A x, y \in variables : x # y => f[x] # f[y]
    /\ \A x, y \in variables :
          (x # y /\ overlaps[<<x, y>>] # None) =>
              /\ HasIndex(f[x], overlaps[<<x, y>>][1])
              /\ HasIndex(f[y], overlaps[<<x, y>>][2])
              /\ f[x][overlaps[<<x, y>>][1] + 1] = f[y][overlaps[<<x, y>>][2] + 1]

HasSolution == \E f \in [variables -> words] : Satisfies(f)

\* C1: after enforce_node_consistency every word left in a variable's domain
\* has exactly the variable's slot length (shorter words are removed too).
C1_NodeConsistencyPostcondition ==
    pc # "enforce_node_consistency" =>
        \A v \in variables : \A w \in domains[v] : Len(w) = v.length

\* C2: solve runs node consistency, then AC-3, then search, and no backtrack
\* step ever follows an AC-3 that returned False.
C2_NoSearchAfterAC3Failure ==
    /\ InSearch => AfterAC3
    /\ ac3_ret = "False" => ~InSearch

\* C3: when AC-3 emptied a domain, solve ends normally with None: neither an
\* assignment nor an unhandled fault.
C3_InfeasibleReportsNoSolution ==
    (ac3_ret = "False" /\ pc = "done") => result = "None"

\* C4: when ac3() returns True, every word of x's domain has a word of y's
\* domain agreeing with it at the overlap indices, both indices in range, for
\* every ordered pair (x, y) of overlapping variables.
C4_ArcConsistentOnSuccess ==
    ac3_ret = "True" =>
        \A x, y \in variables :
            (x # y /\ overlaps[<<x, y>>] # None) =>
                \A wx \in domains[x] : \E wy \in domains[y] :
                    /\ HasIndex(wx, overlaps[<<x, y>>][1])
                    /\ HasIndex(wy, overlaps[<<x, y>>][2])
                    /\ wx[overlaps[<<x, y>>][1] + 1] = wy[overlaps[<<x, y>>][2] + 1]

\* C4 witness: ac3 returned True after revise removed a word that node
\* consistency had left in the domain of an overlapping variable.
C4_Witness ==
    /\ ac3_ret = "True"
    /\ \E x, y \in variables :
          /\ x # y /\ overlaps[<<x, y>>] # None
          /\ domains[x] # {}
          /\ domains[x] # {w \in words : ~(Len(w) > x.length)}

\* C5: ac3() returning True means no domain is empty, and an empty domain at
\* the end of AC-3 means ac3() returned False, for every variable, isolated
\* ones with a domain emptied before AC-3 included.
C5_AC3ResultTellsEmptiness ==
    AfterAC3 =>
        /\ ac3_ret = "True" => \A v \in variables : domains[v] # {}
        /\ (\E v \in variables : domains[v] = {}) => ac3_ret = "False"

\* C6: an assignment returned by solve gives every variable a word and meets
\* the all-distinct, length and overlap constraints.
C6_SearchSound ==
    result = "assignment" => Satisfies(assignment)

\* C6 witness: solve returned an assignment for the three-slot puzzle.
C6_Witness ==
    /\ result = "assignment"
    /\ Cardinality(variables) = 3

\* C7: solve returns an assignment whenever a satisfying one exists, and
\* returns None only when none exists.
C7_SearchComplete ==
    pc = "done" =>
        /\ HasSolution => result = "assignment"
        /\ result = "None" => ~HasSolution

\* C7 witness: solve returned an assignment although the domains left to the
\* search still held a word of an overlapping variable that no satisfying
\* assignment uses.
C7_Witness ==
    /\ pc = "done"
    /\ result = "assignment"
    /\ HasSolution
    /\ \E v \in variables : \E w \in domains[v] :
          /\ neighbors(v) # {}
          /\ ~\E f \in [variables -> words] : Satisfies(f) /\ f[v] = w

\* Number of variables v overlaps
Degree(v) == Cardinality({u \in variables : u # v /\ overlaps[<<v, u>>] # None})

\* C8: the variable select_unassigned_variable returns is unassigned, no
\* unassigned variable has a smaller domain, and none with an equally small
\* domain has more neighbours.
C8_SelectsMRVThenDegree ==
    pc = "for_value" =>
        LET v == stack[Len(stack)].var
        IN  /\ assignment[v] = None
            /\ \A u \in variables :
                  assignment[u] = None =>
                      /\ Cardinality(domains[u]) >= Cardinality(domains[v])
                      /\ Cardinality(domains[u]) = Cardinality(domains[v])
                            => Degree(u) <= Degree(v)

\* The elimination count of word c of variable v as C9 defines it
EliminationCount(v, c) ==
    Cardinality({nd \in {n \in neighbors(v) : assignment[n] = None} \X WordPool :
        /\ nd[2] \in domains[nd[1]]
        /\ \/ nd[2] = c
           \/ ~(/\ Len(c) > overlaps[<<v, nd[1]>>][1]
                /\ Len(nd[2]) > overlaps[<<v, nd[1]>>][2]
                /\ c[overlaps[<<v, nd[1]>>][1] + 1] = nd[2][overlaps[<<v, nd[1]>>][2] + 1])})

\* C9: order_domain_values returns every word of the variable's domain exactly
\* once, in non-decreasing order of its elimination count over the unassigned
\* neighbours.
C9_ValuesOrderedByEliminations ==
    pc = "for_value" =>
        LET v == stack[Len(stack)].var
            vals == stack[Len(stack)].values
        IN  /\ Len(vals) = Cardinality(domains[v])
            /\ {vals[k] : k \in DOMAIN vals} = domains[v]
            /\ \A k \in 1..(Len(vals) - 1) :
                  EliminationCount(v, vals[k]) <= EliminationCount(v, vals[k + 1])

\* C9 witness: the values of a variable with an assigned and an unassigned
\* neighbour were ordered, and their elimination counts differ.
C9_Witness ==
    /\ pc = "for_value"
    /\ LET v == stack[Len(stack)].var
           vals == stack[Len(stack)].values
       IN  /\ \E n \in neighbors(v) : assignment[n] # None /\ domains[n] # {}
           /\ \E n \in neighbors(v) : assignment[n] = None
           /\ Len(vals) >= 2
           /\ EliminationCount(v, vals[1]) < EliminationCount(v, vals[Len(vals)])

\* Some assigned word of a has no character at an overlap index it shares with
\* another assigned variable
ShortAtOverlap(a) ==
    \E x, y \in DOMAIN a :
        /\ x # y /\ a[x] # None /\ a[y] # None
        /\ overlaps[<<x, y>>] # None
        /\ ~HasIndex(a[x], overlaps[<<x, y>>][1])

\* C10: consistent never raises; on an assignment with an assigned word too
\* short for an overlap index shared with another assigned variable it
\* returns False.
C10_ConsistentNeverFaults ==
    /\ consistent_ret # "IndexError"
    /\ (consistent_ret # "unset" /\ ShortAtOverlap(deep_copy_assignment))
          => consistent_ret = "False"

\* The assigned words of a have a character at every overlap index at which
\* two assigned variables meet
InRangeAtOverlaps(a) ==
    \A x, y \in variables :
        (x # y /\ a[x] # None /\ a[y] # None /\ overlaps[<<x, y>>] # None) =>
            /\ HasIndex(a[x], overlaps[<<x, y>>][1])
            /\ HasIndex(a[y], overlaps[<<x, y>>][2])

\* (a) no two distinct assigned variables hold the same word
AssignedWordsDistinct(a) ==
    \A x, y \in variables : (x # y /\ a[x] # None /\ a[y] # None) => a[x] # a[y]

\* (b) every assigned word has its variable's slot length
AssignedLengthsFit(a) ==
    \A x \in variables : a[x] # None => Len(a[x]) = x.length

\* (c) every two assigned overlapping variables agree at the overlap indices
AssignedOverlapsAgree(a) ==
    \A x, y \in variables :
        (x # y /\ a[x] # None /\ a[y] # None /\ overlaps[<<x, y>>] # None) =>
            a[x][overlaps[<<x, y>>][1] + 1] = a[y][overlaps[<<x, y>>][2] + 1]

\* C11: on an assignment whose assigned words reach every overlap index they
\* are compared at, consistent returns True exactly when the assigned words
\* are pairwise distinct, fit their slots and agree at every overlap between
\* two assigned variables; it returns False otherwise and never faults, and
\* unassigned variables play no part.
C11_ConsistentContract ==
    (call.method = "consistent" /\ InRangeAtOverlaps(call.args)) =>
        /\ call.ret \in {"True", "False"}
        /\ call.ret = "True" <=>
              /\ AssignedWordsDistinct(call.args)
              /\ AssignedLengthsFit(call.args)
              /\ AssignedOverlapsAgree(call.args)

\* C11 witness: consistent returned True on an assignment with two assigned
\* overlapping variables and a third variable left unassigned.
C11_Witness ==
    /\ call.method = "consistent"
    /\ call.ret = "True"
    /\ \E x, y, z \in variables :
          /\ x # y /\ overlaps[<<x, y>>] # None
          /\ call.args[x] # None /\ call.args[y] # None
          /\ call.args[z] = None

\* wx has a partner in the set Dy: a word carrying at index ky the letter wx
\* carries at index kx, both words long enough for their index
Supported(wx, kx, Dy, ky) ==
    \E wy \in Dy : /\ HasIndex(wx, kx)
                   /\ HasIndex(wy, ky)
                   /\ wx[kx + 1] = wy[ky + 1]

\* C12: revise(x, y) on overlapping variables leaves in x's domain exactly
\* the words of the old domain that have a partner in y's domain at the
\* overlap indices, returns True exactly when it removed a word, and changes
\* no other domain.
C12_ReviseContract ==
    (call.method = "revise" /\ overlaps[<<call.args[1], call.args[2]>>] # None) =>
        LET x == call.args[1]
            y == call.args[2]
            kx == overlaps[<<x, y>>][1]
            ky == overlaps[<<x, y>>][2]
        IN  /\ domains[x] = {wx \in call.before[x] :
                                Supported(wx, kx, call.before[y], ky)}
            /\ call.ret \in {"True", "False"}
            /\ call.ret = "True" <=> domains[x] # call.before[x]
            /\ \A v \in variables : v # x => domains[v] = call.before[v]

\* C12 witness: revise on an overlapping pair returned True, having removed a
\* word too short for its index and kept a supported one.
C12_Witness ==
    /\ call.method = "revise"
    /\ overlaps[<<call.args[1], call.args[2]>>] # None
    /\ call.ret = "True"
    /\ domains[call.args[1]] # {}
    /\ \E wx \in call.before[call.args[1]] \ domains[call.args[1]] :
          ~HasIndex(wx, overlaps[<<call.args[1], call.args[2]>>][1])

\* C13: revise(x, y) on two variables without an overlap changes no domain,
\* returns False and raises nothing, whatever the two domains hold.
C13_ReviseWithoutOverlapIsNoOp ==
    (call.method = "revise" /\ overlaps[<<call.args[1], call.args[2]>>] = None) =>
        /\ domains = call.before
        /\ call.ret = "False"

\* C14: ac3 called with an explicit list of arcs works that list off and
\* returns True or False.
C14_AC3TakesExplicitArcs ==
    call.method = "ac3" => call.ret \in {"True", "False"}

\* C15: through enforce_node_consistency and ac3 every domain stays within
\* the vocabulary and no step adds a word to a domain, so a domain at a later
\* step is a subset of the domain at any earlier step.
C15_MonotonicShrinkage ==
    /\ [](\A v \in variables : domains[v] \subseteq words)
    /\ [][\A v \in variables : domains'[v] \subseteq domains[v]]_vars

\* C15 witness: in the middle of AC-3, with arcs left in the queue, a domain
\* has lost a word to node consistency and another word to revise.
C15_Witness ==
    /\ pc = "ac3_loop"
    /\ Len(arc_queue) # 0
    /\ \E v \in variables :
          /\ {w \in words : ~(Len(w) > v.length)} # words
          /\ domains[v] # {w \in words : ~(Len(w) > v.length)}
          /\ domains[v] \subseteq {w \in words : ~(Len(w) > v.length)}

\* C16: node consistency and AC-3 never remove a word from the domain of a
\* variable that takes it in some satisfying assignment, and ac3 returns
\* False only for a puzzle that has no satisfying assignment.
C16_PruningKeepsSolutions ==
    /\ \A f \in [variables -> words] :
          Satisfies(f) => \A v \in variables : f[v] \in domains[v]
    /\ ac3_ret = "False" => ~HasSolution

\* C16 witness: ac3 has returned on a puzzle that has a satisfying
\* assignment, after some domain lost a word.
C16_Witness ==
    /\ AfterAC3
    /\ HasSolution
    /\ \E v \in variables : domains[v] # words /\ neighbors(v) # {}

\* The assignment a backtrack call works on, given the one it was entered
\* with: the root call's empty dict gets every variable as an unassigned key
AtEntry(a) == IF DOMAIN a = {} THEN [var \in variables |-> None] ELSE a

\* C17: between the loop iterations of the innermost backtrack call, and so
\* when it returns None, the shared assignment is the one the call was
\* entered with; when the root call has returned None every variable is
\* unassigned.
C17_UndoDiscipline ==
    /\ pc = "for_value" => assignment = AtEntry(stack[Len(stack)].entry)
    /\ result = "None" => \A v \in variables : assignment[v] = None

\* C17 witness: the innermost call is back in its loop after the recursive
\* call made for its previous, consistent value returned None, and it was
\* itself entered with a variable assigned.
C17_Witness ==
    /\ pc = "for_value"
    /\ LET frame == stack[Len(stack)]
       IN  /\ frame.next > 1
           /\ \E v \in variables : AtEntry(frame.entry)[v] # None
           /\ consistent([AtEntry(frame.entry) EXCEPT
                             ![frame.var] = frame.values[frame.next - 1]],
                         var_order, var_order) = "True"

\* C18: at every entry to backtrack and between the steps of its loop the
\* assigned words fit their slots, agree at every overlap between two
\* assigned variables and are pairwise distinct; and a step writes a word
\* into the shared assignment only when consistent returned True for the
\* copy carrying that word.
C18_SearchKeepsAssignmentConsistent ==
    /\ []((InSearch /\ DOMAIN assignment = variables) =>
              /\ AssignedLengthsFit(assignment)
              /\ InRangeAtOverlaps(assignment)
              /\ AssignedOverlapsAgree(assignment)
              /\ AssignedWordsDistinct(assignment))
    /\ [][(\E v \in DOMAIN assignment :
              assignment'[v] # assignment[v] /\ assignment'[v] # None) =>
                  /\ consistent_ret' = "True"
                  /\ assignment' = deep_copy_assignment']_vars

\* C18 witness: a candidate has just failed the consistency check against an
\* assignment that holds a word for another variable, and was not written.
C18_Witness ==
    /\ pc = "for_value"
    /\ consistent_ret = "False"
    /\ \E v \in variables : assignment[v] # None
    /\ assignment[stack[Len(stack)].var] = None
    /\ deep_copy_assignment[stack[Len(stack)].var] # None
    /\ \A v \in variables :
          v # stack[Len(stack)].var => deep_copy_assignment[v] = assignment[v]

\* C19: once ac3 has returned no step changes a domain, so the domains when
\* solve returns are the ones AC-3 left.
C19_DomainsReadOnlyInSearch ==
    [][AfterAC3 => domains' = domains]_vars

\* C19 witness: solve has returned None after a search that committed a
\* value and tried a second variable on top of it, with a domain still
\* holding more than one word.
C19_Witness ==
    /\ pc = "done"
    /\ result = "None"
    /\ consistent_ret # "unset"
    /\ \E v \in variables : \E u \in variables \ {v} :
          deep_copy_assignment[v] # None /\ deep_copy_assignment[u] # None
    /\ \E v \in variables : Cardinality(domains[v]) > 1

\* C20: ac3 always returns, with the queue empty or a domain empty; an
\* iteration on arc (x, y) appends arcs to the queue only when revise removed
\* a word from x's domain, appends only arcs into x, and then appends the arc
\* (z, x) of every variable z that overlaps x.
C20_AC3Terminates ==
    /\ <>(/\ AfterAC3
          /\ Len(arc_queue) = 0 \/ \E v \in variables : domains[v] = {})
    /\ [][(pc = "ac3_loop" /\ pc' = "ac3_loop" /\ Len(arc_queue) # 0) =>
             LET x == Head(arc_queue)[1]
                 appended == SubSeq(arc_queue', Len(arc_queue), Len(arc_queue'))
                 removed == domains[x] \ domains'[x]
             IN  /\ SubSeq(arc_queue', 1, Len(arc_queue) - 1) = Tail(arc_queue)
                 /\ Len(appended) # 0 => removed # {}
                 /\ \A k \in DOMAIN appended : appended[k][2] = x
                 /\ removed # {} =>
                       \A z \in variables \ {x} :
                           overlaps[<<z, x>>] # None =>
                               \E k \in DOMAIN appended : appended[k] = <<z, x>>]_vars

\* C20 witness: AC-3 is under way with a queue as long as the initial one
\* although arcs were popped, after revise removed a word from a domain and
\* left it non-empty.
C20_Witness ==
    /\ pc = "ac3_loop"
    /\ Len(arc_queue) >= Len(overlap_keys)
    /\ \E v \in variables :
          /\ domains[v] # {}
          /\ domains[v] # {w \in words : ~(Len(w) > v.length)}

====
